---- MODULE Spec2Model ----
(***************************************************************************)
(* Model of the two utilities of general_utils:                            *)
(*   pip_deps.py      split_requirements: splits a requirements file into  *)
(*                    independent and dependent packages by means of a     *)
(*                    temporary virtual environment and a dependency tree. *)
(*   pip_download.py  downloads every package of a requirements file.      *)
(* Text is modelled as a sequence of one-character strings, a file as      *)
(* NoFile or its content.  Every subprocess is an external tool: its exit  *)
(* status and its output are chosen nondeterministically.                  *)
(***************************************************************************)
EXTENDS Naturals, Sequences, FiniteSets

VARIABLES
    \* ---- file system (shared by every run in the working directory)
    req_file,             \* requirements.txt: NoFile or File(its lines)
    independent_file,     \* requirements_independent.txt: NoFile or File(its text)
    dependent_file,       \* requirements_dependent.txt: NoFile or File(its text)
    venv_exists,          \* os.path.exists("temp_pip_env_for_analysis")
    \* ---- split_requirements, one entry per run
    pc,                   \* the statement the run is at
    original_packages_raw,
    dependency_tree,
    depended_upon_set,
    independent_packages,
    dependent_packages,
    out,                  \* the messages the run has printed
    \* ---- pip_download.py __main__
    dl_pc,
    dl_line,              \* number of lines of the file the loop has consumed
    dl_attempted,         \* the packages pip download was invoked for
    dl_out,
    \* ---- get_base_package_name applied to one string
    bn_pc,
    bn_line,              \* package_line
    bn_name,              \* get_base_package_name(package_line)
    bn_again              \* get_base_package_name of that result

fsVars == <<req_file, independent_file, dependent_file, venv_exists>>
runVars == <<pc, original_packages_raw, dependency_tree, depended_upon_set,
             independent_packages, dependent_packages, out>>
dlVars == <<dl_pc, dl_line, dl_attempted, dl_out>>
bnVars == <<bn_pc, bn_line, bn_name, bn_again>>
vars == <<fsVars, runVars, dlVars, bnVars>>

\* ------------------------------------------------------------------ bounds
\* longest string handed to get_base_package_name in SpecBaseName
MaxLen == 4
\* most lines of a requirements file
MaxLines == 2
\* most records of the dependency tree the tool returns
MaxRecords == 2

\* ------------------------------------------------------------------ text
NL == "\n"
\* a path of the file system: absent, or a file with its content
NoFile == [exists |-> FALSE, content |-> <<>>]
File(content) == [exists |-> TRUE, content |-> content]
Whitespace == {" ", NL}
Alphabet == {"a", "A", " ", "=", ">", "<", "!", "~"}

Min(S) == CHOOSE x \in S : \A y \in S : x <= y

\* str.lower() on the characters of the model
LowerChar(c) ==
    CASE c = "A" -> "a"
      [] c = "B" -> "b"
      [] c = "C" -> "c"
      [] OTHER -> c

Lower(s) == [i \in DOMAIN s |-> LowerChar(s[i])]

RECURSIVE LStrip(_)
LStrip(s) ==
    IF s = <<>> THEN s
    ELSE IF s[1] \in Whitespace THEN LStrip(Tail(s)) ELSE s

RECURSIVE RStrip(_)
RStrip(s) ==
    IF s = <<>> THEN s
    ELSE IF s[Len(s)] \in Whitespace THEN RStrip(SubSeq(s, 1, Len(s) - 1)) ELSE s

\* str.strip()
Strip(s) == RStrip(LStrip(s))

\* the positions at which sep occurs in s
Occurrences(s, sep) ==
    {i \in 1..Len(s) : i + Len(sep) - 1 <= Len(s)
                       /\ SubSeq(s, i, i + Len(sep) - 1) = sep}

\* s.split(sep)[0]: the text before the first occurrence of sep, or all of s
SplitFirst(s, sep) ==
    IF Occurrences(s, sep) = {} THEN s
    ELSE SubSeq(s, 1, Min(Occurrences(s, sep)) - 1)

\* the separators in the order the chain of split() calls applies them
Specifiers == << <<"=", "=">>, <<">", "=">>, <<"<", "=">>, <<">">>, <<"<">>,
                 <<"!", "=">>, <<"~", "=">> >>

RECURSIVE SplitChain(_, _)
SplitChain(s, n) ==
    IF n = 0 THEN s
    ELSE SplitFirst(SplitChain(s, n - 1), Specifiers[n])

\* a variant that forgets the last strip(): "numpy >= 1" keeps its blank
get_base_package_name_nostrip(package_line) ==
    Lower(SplitChain(Strip(package_line), Len(Specifiers)))

get_base_package_name(package_line) ==
    Lower(Strip(SplitChain(Strip(package_line), Len(Specifiers))))


\* ------------------------------------------------- the inputs of the model
Runs == {1, 2}

L_a == <<"a", "=", "=", "1">>
L_B == <<" ", "B", ">", "=", "2", " ">>
L_comment == <<" ", "#", "c">>
L_blank == <<" ">>
FileLines == {L_a, L_B, L_comment, L_blank}

\* every requirements file of at most MaxLines lines
Files == {File(c) : c \in UNION {[1..n -> FileLines] : n \in 0..MaxLines}}

\* what an output file may hold before the run
OldFile == File(<<"o", "l", "d", NL>>)

K_a == <<"a">>
K_b == <<"b">>
PackageKeys == {K_a, K_b}

\* one record of `pip deptree --json`: {key, dependencies: [{key}, ...]}.  The loop
\* over the records and over their dependencies only adds to a set, so their
\* order and multiplicity cannot matter: both lists are modelled as sets.
Records == [key : PackageKeys, dependencies : SUBSET PackageKeys]
Tree(records) == [wellformed |-> TRUE, records |-> records]
DependencyTrees == {Tree(t) : t \in {s \in SUBSET Records : Cardinality(s) <= MaxRecords}}

\* JSON that parses but holds a record without 'key'
Malformed == [wellformed |-> FALSE, records |-> {}]

Range(f) == {f[i] : i \in DOMAIN f}

\* ------------------------------------------------------------ pure helpers
\* line 22: `if line and not line.startswith("#")`
IsRequirement(line) == line # <<>> /\ line[1] # "#"

\* lines 19-23: the stripped lines of the file that are neither blank nor comments
ReadRequirements(file) ==
    LET stripped == [i \in DOMAIN file.content |-> Strip(file.content[i])]
    IN  SelectSeq(stripped, IsRequirement)

\* line 31
original_packages_normalized(raw) == {get_base_package_name(p) : p \in Range(raw)}

\* a variant without the test of line 84: any record's dependencies count
DependedUponAnyKey(orig, tree) ==
    {d \in orig : \E rec \in tree : d \in rec.dependencies}

\* lines 80-89
DependedUpon(orig, tree) ==
    {d \in orig : \E rec \in tree : rec.key \in orig /\ d \in rec.dependencies}

\* a variant whose append to independent_packages is not under the else
IndependentOfAll(raw, dset) == raw

\* lines 95-100, the else branch
IndependentOf(raw, dset) ==
    LET keep(l) == get_base_package_name(l) \notin dset IN SelectSeq(raw, keep)

\* lines 95-98, the if branch
DependentOf(raw, dset) ==
    LET keep(l) == get_base_package_name(l) \in dset IN SelectSeq(raw, keep)

RECURSIVE Written(_)
\* lines 105-106, 110-111: pkg + "\n" for every package, in order
Written(pkgs) ==
    IF pkgs = <<>> THEN <<>>
    ELSE Head(pkgs) \o <<NL>> \o Written(Tail(pkgs))

\* a variant that opens the file with mode "a"
OpenAndWriteAppend(old, pkgs) == File(old.content \o Written(pkgs))

\* lines 104-106, 109-111: open(path, "w") truncates, then the packages are written
OpenAndWrite(old, pkgs) == File(Written(pkgs))

Say(r, msgs) == out' = [out EXCEPT ![r] = @ \cup msgs]
Goto(r, label) == pc' = [pc EXCEPT ![r] = label]

\* the handlers of lines 115-124: each prints and falls through to finally
Caught(r, printed, error) == Say(r, printed \cup {error}) /\ Goto(r, "teardown")

SubprocessError == "An error occurred during subprocess execution"
JsonError == "Error: Could not parse JSON output from pipdeptree"
UnexpectedError == "An unexpected error occurred"
InstallWarning == "Attempting to proceed with partial installation data"
ErrorMessages == {SubprocessError, JsonError, UnexpectedError}


\* ------------------------------------------------------ split_requirements
\* a variant that touches both output files before it reports the missing input
LoadTouching(r) ==
    /\ pc[r] = "load"
    /\ IF req_file = NoFile
       THEN /\ Say(r, {"Error: not found"})
            /\ Goto(r, "done")
            /\ independent_file' = File(<<>>)
            /\ dependent_file' = File(<<>>)
            /\ UNCHANGED original_packages_raw
       ELSE /\ UNCHANGED <<independent_file, dependent_file>>
            /\ IF ReadRequirements(req_file) = <<>>
               THEN /\ Say(r, {"Warning: empty or only comments"})
                    /\ Goto(r, "done")
                    /\ UNCHANGED original_packages_raw
               ELSE /\ original_packages_raw' =
                          [original_packages_raw EXCEPT ![r] = ReadRequirements(req_file)]
                    /\ Say(r, {"Analyzing"})
                    /\ Goto(r, "provision")
    /\ UNCHANGED <<req_file, venv_exists, dependency_tree, depended_upon_set,
                   independent_packages, dependent_packages, dlVars, bnVars>>

\* step 1, lines 16-33
Load(r) ==
    /\ pc[r] = "load"
    /\ IF req_file = NoFile
       THEN /\ Say(r, {"Error: not found"})
            /\ Goto(r, "done")
            /\ UNCHANGED original_packages_raw
       ELSE IF ReadRequirements(req_file) = <<>>
       THEN /\ Say(r, {"Warning: empty or only comments"})
            /\ Goto(r, "done")
            /\ UNCHANGED original_packages_raw
       ELSE /\ original_packages_raw' =
                  [original_packages_raw EXCEPT ![r] = ReadRequirements(req_file)]
            /\ Say(r, {"Analyzing"})
            /\ Goto(r, "provision")
    /\ UNCHANGED <<fsVars, dependency_tree, depended_upon_set,
                   independent_packages, dependent_packages, dlVars, bnVars>>

\* step 2, lines 36-38: python -m venv; a failed run may leave the directory behind
ProvisionEnv(r) ==
    /\ pc[r] = "provision"
    /\ \/ /\ venv_exists' = TRUE
          /\ Say(r, {"Creating temporary virtual environment"})
          /\ Goto(r, "install_tool")
       \/ /\ venv_exists' \in {venv_exists, TRUE}
          /\ Caught(r, {"Creating temporary virtual environment"}, SubprocessError)
    /\ UNCHANGED <<req_file, independent_file, dependent_file, original_packages_raw,
                   dependency_tree, depended_upon_set, independent_packages,
                   dependent_packages, dlVars, bnVars>>

\* a variant whose failure leaves the function without passing through finally
InstallToolNoFinally(r) ==
    /\ pc[r] = "install_tool"
    /\ IF ~venv_exists
       THEN Caught(r, {"Installing pipdeptree"}, UnexpectedError)
       ELSE \/ Say(r, {"Installing pipdeptree"}) /\ Goto(r, "install_requirements")
            \/ Say(r, {"Installing pipdeptree", SubprocessError}) /\ Goto(r, "done")
    /\ UNCHANGED <<fsVars, original_packages_raw, dependency_tree, depended_upon_set,
                   independent_packages, dependent_packages, dlVars, bnVars>>

\* step 3, lines 46-48: pip install pipdeptree.  With the directory gone the pip
\* executable is missing and subprocess.run raises FileNotFoundError.
InstallTool(r) ==
    /\ pc[r] = "install_tool"
    /\ IF ~venv_exists
       THEN Caught(r, {"Installing pipdeptree"}, UnexpectedError)
       ELSE \/ Say(r, {"Installing pipdeptree"}) /\ Goto(r, "install_requirements")
            \/ Caught(r, {"Installing pipdeptree"}, SubprocessError)
    /\ UNCHANGED <<fsVars, original_packages_raw, dependency_tree, depended_upon_set,
                   independent_packages, dependent_packages, dlVars, bnVars>>

\* a variant without the inner try of lines 56-63
InstallRequirementsFatal(r) ==
    /\ pc[r] = "install_requirements"
    /\ IF ~venv_exists
       THEN Caught(r, {"Installing all requirements"}, UnexpectedError)
       ELSE \/ /\ Say(r, {"Installing all requirements", "All requirements installed"})
               /\ Goto(r, "list")
            \/ /\ Say(r, {"Installing all requirements", InstallWarning})
               /\ Goto(r, "teardown")
    /\ UNCHANGED <<fsVars, original_packages_raw, dependency_tree, depended_upon_set,
                   independent_packages, dependent_packages, dlVars, bnVars>>

\* step 4, lines 50-63: pip install -r; CalledProcessError is caught and only warned of
InstallRequirements(r) ==
    /\ pc[r] = "install_requirements"
    /\ IF ~venv_exists
       THEN Caught(r, {"Installing all requirements"}, UnexpectedError)
       ELSE \/ /\ Say(r, {"Installing all requirements", "All requirements installed"})
               /\ Goto(r, "list")
            \/ /\ Say(r, {"Installing all requirements", InstallWarning})
               /\ Goto(r, "list")
    /\ UNCHANGED <<fsVars, original_packages_raw, dependency_tree, depended_upon_set,
                   independent_packages, dependent_packages, dlVars, bnVars>>

\* step 5, lines 66-69: pip list --format=json, json.loads, the names of the packages
ListInstalled(r) ==
    /\ pc[r] = "list"
    /\ IF ~venv_exists
       THEN Caught(r, {"Generating dependency tree"}, UnexpectedError)
       ELSE \/ Say(r, {"Generating dependency tree"}) /\ Goto(r, "deptree")
            \/ \E e \in ErrorMessages : Caught(r, {"Generating dependency tree"}, e)
    /\ UNCHANGED <<fsVars, original_packages_raw, dependency_tree, depended_upon_set,
                   independent_packages, dependent_packages, dlVars, bnVars>>

\* a variant that takes unparsable output for an empty tree and carries on
QueryGraphLenient(r, trees) ==
    /\ pc[r] = "deptree"
    /\ IF ~venv_exists
       THEN Caught(r, {}, UnexpectedError) /\ UNCHANGED dependency_tree
       ELSE \/ /\ \E t \in trees : dependency_tree' = [dependency_tree EXCEPT ![r] = t]
               /\ Goto(r, "classify")
               /\ UNCHANGED out
            \/ Caught(r, {}, SubprocessError) /\ UNCHANGED dependency_tree
            \/ /\ Say(r, {JsonError})
               /\ dependency_tree' = [dependency_tree EXCEPT ![r] = Tree({})]
               /\ Goto(r, "classify")
    /\ UNCHANGED <<fsVars, original_packages_raw, depended_upon_set,
                   independent_packages, dependent_packages, dlVars, bnVars>>

\* lines 76-77: pip deptree --json, json.loads
QueryGraph(r, trees) ==
    /\ pc[r] = "deptree"
    /\ IF ~venv_exists
       THEN Caught(r, {}, UnexpectedError) /\ UNCHANGED dependency_tree
       ELSE \/ /\ \E t \in trees : dependency_tree' = [dependency_tree EXCEPT ![r] = t]
               /\ Goto(r, "classify")
               /\ UNCHANGED out
            \/ \E e \in {SubprocessError, JsonError} :
                  Caught(r, {}, e) /\ UNCHANGED dependency_tree
    /\ UNCHANGED <<fsVars, original_packages_raw, depended_upon_set,
                   independent_packages, dependent_packages, dlVars, bnVars>>

\* steps 6 and 7, lines 79-100; pkg_info['key'] raises KeyError on a malformed record
Classify(r) ==
    /\ pc[r] = "classify"
    /\ IF ~dependency_tree[r].wellformed
       THEN /\ Caught(r, {}, UnexpectedError)
            /\ UNCHANGED <<depended_upon_set, independent_packages, dependent_packages>>
       ELSE LET raw == original_packages_raw[r]
                dset == DependedUpon(original_packages_normalized(raw),
                                     dependency_tree[r].records)
            IN  /\ depended_upon_set' = [depended_upon_set EXCEPT ![r] = dset]
                /\ independent_packages' =
                      [independent_packages EXCEPT ![r] = IndependentOf(raw, dset)]
                /\ dependent_packages' =
                      [dependent_packages EXCEPT ![r] = DependentOf(raw, dset)]
                /\ Goto(r, "write_independent")
                /\ UNCHANGED out
    /\ UNCHANGED <<fsVars, original_packages_raw, dependency_tree, dlVars, bnVars>>

\* step 8, lines 103-106; a failing open() raises OSError before anything is written
WriteIndependent(r) ==
    /\ pc[r] = "write_independent"
    /\ \/ /\ independent_file' = OpenAndWrite(independent_file, independent_packages[r])
          /\ Say(r, {"Writing to independent"})
          /\ Goto(r, "write_dependent")
       \/ /\ Caught(r, {"Writing to independent"}, UnexpectedError)
          /\ UNCHANGED independent_file
    /\ UNCHANGED <<req_file, dependent_file, venv_exists, original_packages_raw,
                   dependency_tree, depended_upon_set, independent_packages,
                   dependent_packages, dlVars, bnVars>>

\* step 8, lines 108-113
WriteDependent(r) ==
    /\ pc[r] = "write_dependent"
    /\ \/ /\ dependent_file' = OpenAndWrite(dependent_file, dependent_packages[r])
          /\ Say(r, {"Writing to dependent", "Requirements files split successfully!"})
          /\ Goto(r, "teardown")
       \/ /\ Caught(r, {"Writing to dependent"}, UnexpectedError)
          /\ UNCHANGED dependent_file
    /\ UNCHANGED <<req_file, independent_file, venv_exists, original_packages_raw,
                   dependency_tree, depended_upon_set, independent_packages,
                   dependent_packages, dlVars, bnVars>>

\* a variant that holds the directory back while another run is working in it
TeardownRemoveLocked(r) ==
    /\ pc[r] = "teardown"
    /\ venv_exists
    /\ \A q \in Runs \ {r} :
          pc[q] \notin {"install_tool", "install_requirements", "list", "deptree"}
    /\ \/ venv_exists' = FALSE /\ Say(r, {"Cleaning up", "Temporary environment removed."})
       \/ venv_exists' = TRUE /\ Say(r, {"Cleaning up", "Error removing temporary directory"})
    /\ Goto(r, "done")

\* step 9, lines 127-133: the directory exists; shutil.rmtree succeeds or raises
\* OSError, which is printed
TeardownRemove(r) ==
    /\ pc[r] = "teardown"
    /\ venv_exists
    /\ \/ venv_exists' = FALSE /\ Say(r, {"Cleaning up", "Temporary environment removed."})
       \/ venv_exists' = TRUE /\ Say(r, {"Cleaning up", "Error removing temporary directory"})
    /\ Goto(r, "done")

\* step 9, lines 125-133: the finally block
Teardown(r) ==
    /\ \/ TeardownRemove(r)
       \/ /\ pc[r] = "teardown"
          /\ ~venv_exists
          /\ Goto(r, "done")
          /\ UNCHANGED <<venv_exists, out>>
    /\ UNCHANGED <<req_file, independent_file, dependent_file, original_packages_raw,
                   dependency_tree, depended_upon_set, independent_packages,
                   dependent_packages, dlVars, bnVars>>

\* one statement of run r; trees is what the dependency query may return
RunStep(r, trees) ==
    \/ Load(r)
    \/ ProvisionEnv(r)
    \/ InstallTool(r)
    \/ InstallRequirements(r)
    \/ ListInstalled(r)
    \/ QueryGraph(r, trees)
    \/ Classify(r)
    \/ WriteIndependent(r)
    \/ WriteDependent(r)
    \/ Teardown(r)

\* the locals of a run that has not assigned them
RunInit ==
    /\ original_packages_raw = [r \in Runs |-> <<>>]
    /\ dependency_tree = [r \in Runs |-> Tree({})]
    /\ depended_upon_set = [r \in Runs |-> {}]
    /\ independent_packages = [r \in Runs |-> <<>>]
    /\ dependent_packages = [r \in Runs |-> <<>>]
    /\ out = [r \in Runs |-> {}]

DlIdle == dl_pc = "idle" /\ dl_line = 0 /\ dl_attempted = <<>> /\ dl_out = <<>>
BnIdle == bn_pc = "idle" /\ bn_line = <<>> /\ bn_name = <<>> /\ bn_again = <<>>

\* one run of pip_deps.py (lines 135-141) in a directory that holds any
\* requirements file or none, and output files of an earlier run or none
Init ==
    /\ req_file \in Files \cup {NoFile}
    /\ independent_file \in {NoFile, OldFile}
    /\ dependent_file \in {NoFile, OldFile}
    /\ venv_exists = FALSE
    /\ pc = [r \in Runs |-> IF r = 1 THEN "load" ELSE "idle"]
    /\ RunInit
    /\ DlIdle
    /\ BnIdle

Next == RunStep(1, DependencyTrees \cup {Malformed})

Spec == Init /\ [][Next]_vars


\* two runs of pip_deps.py started in the same working directory; nothing in the
\* script serialises them.  One requirements file, and one well-formed answer of
\* the dependency query, keep the product of the two runs small.
ConcurrentTrees == {Tree({[key |-> K_a, dependencies |-> {K_b}]}), Malformed}

InitConcurrent ==
    /\ req_file = File(<<L_a, L_B>>)
    /\ independent_file = NoFile
    /\ dependent_file = NoFile
    /\ venv_exists = FALSE
    /\ pc = [r \in Runs |-> "load"]
    /\ RunInit
    /\ DlIdle
    /\ BnIdle

NextConcurrent == \E r \in Runs : RunStep(r, ConcurrentTrees)

SpecConcurrent == InitConcurrent /\ [][NextConcurrent]_vars

\* --------------------------------------------------------- pip_download.py
ExitStatuses == {"0", "No matching distribution found", "other error"}

\* lines 27-39: subprocess.run(..., check=True) raises CalledProcessError on every
\* non-zero exit, so the statements after it run with returncode 0 only
download_package(status) ==
    IF status = "0"
    THEN [raised |-> FALSE, printed |-> <<"Successfully downloaded">>]
    ELSE [raised |-> TRUE, printed |-> <<>>]

\* line 48: open(REQUIREMENTS_FILE); FileNotFoundError is not caught
DlOpen ==
    /\ dl_pc = "open"
    /\ dl_pc' = IF req_file.exists THEN "loop" ELSE "crashed"
    /\ UNCHANGED <<dl_line, dl_attempted, dl_out, fsVars, runVars, bnVars>>

\* lines 49-58: one iteration of the loop over the lines of the file
DlLine ==
    /\ dl_pc = "loop"
    /\ dl_line < Len(req_file.content)
    /\ dl_line' = dl_line + 1
    /\ LET package == Strip(req_file.content[dl_line + 1])
       IN  IF IsRequirement(package)
           THEN \E status \in ExitStatuses :
                   /\ dl_attempted' = Append(dl_attempted, package)
                   /\ dl_out' = dl_out \o download_package(status).printed
                   /\ dl_pc' = IF download_package(status).raised
                               THEN "crashed" ELSE "loop"
           ELSE UNCHANGED <<dl_pc, dl_attempted, dl_out>>
    /\ UNCHANGED <<fsVars, runVars, bnVars>>

\* line 60
DlFinish ==
    /\ dl_pc = "loop"
    /\ dl_line = Len(req_file.content)
    /\ dl_out' = Append(dl_out, "Finished processing requirements.")
    /\ dl_pc' = "finished"
    /\ UNCHANGED <<dl_line, dl_attempted, fsVars, runVars, bnVars>>

InitDownload ==
    /\ req_file \in Files \cup {NoFile}
    /\ independent_file = NoFile
    /\ dependent_file = NoFile
    /\ venv_exists = FALSE
    /\ pc = [r \in Runs |-> "idle"]
    /\ RunInit
    /\ dl_pc = "open" /\ dl_line = 0 /\ dl_attempted = <<>> /\ dl_out = <<>>
    /\ BnIdle

NextDownload == DlOpen \/ DlLine \/ DlFinish

SpecDownload == InitDownload /\ [][NextDownload]_vars

\* ---------------------------------- get_base_package_name on arbitrary text
Strings == UNION {[1..n -> Alphabet] : n \in 0..MaxLen}

Normalize ==
    /\ bn_pc = "input"
    /\ bn_name' = get_base_package_name(bn_line)
    /\ bn_pc' = "normalized"
    /\ UNCHANGED <<bn_line, bn_again, fsVars, runVars, dlVars>>

NormalizeAgain ==
    /\ bn_pc = "normalized"
    /\ bn_again' = get_base_package_name(bn_name)
    /\ bn_pc' = "again"
    /\ UNCHANGED <<bn_line, bn_name, fsVars, runVars, dlVars>>

InitBaseName ==
    /\ req_file = NoFile
    /\ independent_file = NoFile
    /\ dependent_file = NoFile
    /\ venv_exists = FALSE
    /\ pc = [r \in Runs |-> "idle"]
    /\ RunInit
    /\ DlIdle
    /\ bn_pc = "input" /\ bn_line \in Strings /\ bn_name = <<>> /\ bn_again = <<>>

NextBaseName == Normalize \/ NormalizeAgain

SpecBaseName == InitBaseName /\ [][NextBaseName]_vars


\* ------------------------------------------------------------------ claims
Success == "Requirements files split successfully!"
Removed == "Temporary environment removed."
RemoveError == "Error removing temporary directory"
BetweenProvisionAndQuery == {"install_tool", "install_requirements", "list", "deptree"}
BeforeClassify == {"load", "provision"} \cup BetweenProvisionAndQuery

\* the number of entries of seq equal to x
Count(x, seq) == Cardinality({i \in DOMAIN seq : seq[i] = x})

\* the lines of a file that are neither blank nor comments, counted in place
CountRequirements(file) ==
    Cardinality({i \in DOMAIN file.content :
                    /\ \E j \in DOMAIN file.content[i] : file.content[i][j] \notin Whitespace
                    /\ LStrip(file.content[i])[1] # "#"})

RECURSIVE TextLines(_)
\* the lines of a text, each ended by a newline (a last line may lack it)
TextLines(text) ==
    IF text = <<>> THEN <<>>
    ELSE LET ends == {i \in DOMAIN text : text[i] = NL}
             e == IF ends = {} THEN Len(text) + 1 ELSE Min(ends)
         IN  <<SubSeq(text, 1, e - 1)>> \o TextLines(SubSeq(text, e + 1, Len(text)))

RECURSIVE IsSubsequence(_, _)
\* sub is seq with some entries left out, the order kept
IsSubsequence(sub, seq) ==
    IF sub = <<>> THEN TRUE
    ELSE IF seq = <<>> THEN FALSE
    ELSE IF Head(sub) = Head(seq) THEN IsSubsequence(Tail(sub), Tail(seq))
    ELSE IsSubsequence(sub, Tail(seq))

\* run r has passed the categorisation of step 7
Categorised(r) ==
    \/ pc[r] \in {"write_independent", "write_dependent"}
    \/ "Writing to independent" \in out[r]

\* C1: once the packages are categorised, every non-blank non-comment line of the
\* input is in exactly one of independent_packages and dependent_packages, once per
\* occurrence, so the two lengths add up to the number of those lines.
C1_Partition ==
    \A r \in Runs : Categorised(r) =>
        /\ Len(independent_packages[r]) + Len(dependent_packages[r])
              = CountRequirements(req_file)
        /\ \A x \in Range(original_packages_raw[r]) :
              /\ Count(x, independent_packages[r]) + Count(x, dependent_packages[r])
                    = Count(x, original_packages_raw[r])
              /\ ~(x \in Range(independent_packages[r])
                   /\ x \in Range(dependent_packages[r]))

\* C1 witness: the packages of a two-line file have fallen in both lists
C1_Witness ==
    /\ pc[1] = "write_independent"
    /\ independent_packages[1] # <<>>
    /\ dependent_packages[1] # <<>>
    /\ Len(original_packages_raw[1]) = Len(req_file.content)

\* a record of the tree that makes the specifier line Dependent; other says whether
\* the record must belong to another package than the specifier's own
Referenced(r, line, other) ==
    \E rec \in dependency_tree[r].records :
        /\ rec.key \in original_packages_normalized(original_packages_raw[r])
        /\ get_base_package_name(line) \in rec.dependencies
        /\ other => rec.key # get_base_package_name(line)

\* C2 as stated: a specifier is Dependent iff some OTHER package whose key is in the
\* Original Set lists its base name as a dependency.
C2_OtherPackage ==
    \A r \in Runs : Categorised(r) =>
        \A line \in Range(original_packages_raw[r]) :
            line \in Range(dependent_packages[r]) <=> Referenced(r, line, TRUE)

\* C2 amended: a specifier is Dependent iff some record whose key is in the Original
\* Set (that of the specifier's own package included) lists its base name as a
\* dependency; records with a key outside the Original Set, dependency keys outside
\* it and unreferenced packages make nothing Dependent, and an Independent
\* specifier is one that is not Dependent.
C2_Classification ==
    \A r \in Runs : Categorised(r) =>
        \A line \in Range(original_packages_raw[r]) :
            /\ line \in Range(dependent_packages[r]) <=> Referenced(r, line, FALSE)
            /\ line \in Range(independent_packages[r]) <=> ~Referenced(r, line, FALSE)

\* C2 witness: a package that only its own record lists is Dependent, beside an
\* Independent one
C2_Witness ==
    /\ pc[1] = "write_independent"
    /\ independent_packages[1] # <<>>
    /\ \E line \in Range(dependent_packages[1]) :
          Referenced(1, line, FALSE) /\ ~Referenced(1, line, TRUE)

\* C3 as stated: with the requirements file present the batch never aborts; every
\* non-blank non-comment line is attempted and the run prints that it has finished.
C3_NeverAborts ==
    req_file.exists =>
        /\ dl_pc # "crashed"
        /\ dl_pc = "finished" => dl_attempted = ReadRequirements(req_file)

\* C4: a run that loaded at least one package returns only through the finally
\* block, which attempts the removal whenever the directory exists and prints a
\* failure of it instead of raising; a run whose load fails returns at once,
\* without provisioning, installing, querying or tearing down.
C4_Teardown ==
    [][\A r \in Runs :
          /\ (pc[r] = "load" /\ pc'[r] # "load") =>
                IF req_file.exists /\ CountRequirements(req_file) > 0
                THEN pc'[r] = "provision"
                ELSE /\ pc'[r] = "done"
                     /\ UNCHANGED venv_exists
                     /\ out'[r] \subseteq {"Error: not found",
                                           "Warning: empty or only comments"}
          /\ (pc'[r] = "done" /\ pc[r] \notin {"load", "done"}) => pc[r] = "teardown"
          /\ (pc[r] = "teardown" /\ pc'[r] # "teardown") =>
                /\ pc'[r] = "done"
                /\ IF venv_exists
                   THEN /\ "Cleaning up" \in out'[r]
                        /\ \/ ~venv_exists' /\ Removed \in out'[r]
                           \/ RemoveError \in out'[r]
                   ELSE UNCHANGED venv_exists
          /\ pc[r] = "done" => pc'[r] = "done"
      ]_vars

\* C4 witness: a run that failed after provisioning, whose removal failed too, has
\* returned with both failures printed
C4_Witness ==
    /\ pc[1] = "done"
    /\ original_packages_raw[1] # <<>>
    /\ out[1] \cap ErrorMessages # {}
    /\ RemoveError \in out[1]

\* C5: with the input file missing the run prints the error and returns, leaving
\* both output files and the absence of the sandbox as they were.
C5_MissingInput ==
    [][\A r \in Runs :
          (pc[r] = "load" /\ pc'[r] # "load" /\ ~req_file.exists) =>
              /\ pc'[r] = "done"
              /\ "Error: not found" \in out'[r]
              /\ UNCHANGED <<req_file, independent_file, dependent_file, venv_exists>>
      ]_vars

\* C5 witness: the run has returned on a missing input and the output files of an
\* earlier run are still there
C5_Witness ==
    /\ pc[1] = "done"
    /\ ~req_file.exists
    /\ "Error: not found" \in out[1]
    /\ independent_file = OldFile
    /\ dependent_file = OldFile
    /\ ~venv_exists

\* no result of get_base_package_name holds an upper-case letter or an operator
Normalized(name) ==
    /\ \A i \in DOMAIN name : name[i] \notin {"A", "B", "C"}
    /\ \A k \in DOMAIN Specifiers : Occurrences(name, Specifiers[k]) = {}

\* C6: get_base_package_name applied to its own result returns that result, which
\* is lower-case and holds none of ==, >=, <=, >, <, !=, ~=.
C6_Idempotent ==
    /\ bn_pc \in {"normalized", "again"} => Normalized(bn_name)
    /\ bn_pc = "again" => bn_again = bn_name

\* C6 witness: a padded upper-case name with a version clause has been normalised twice
C6_Witness ==
    /\ bn_pc = "again"
    /\ bn_line = <<"A", " ", ">", "=">>
    /\ bn_name = <<"a">>

\* the lines of a file are the entries of raw whose base name is, or is not, in dset
HoldsClass(file, raw, dset, member) ==
    LET keep(l) == (get_base_package_name(l) \in dset) = member
    IN  /\ file.exists
        /\ TextLines(file.content) = SelectSeq(raw, keep)
        /\ IsSubsequence(TextLines(file.content), raw)
        /\ Len(file.content) = 0 \/ file.content[Len(file.content)] = NL

\* C7: after a successful run each output file holds exactly the original texts of
\* the specifiers of its class, one per line and in the order of the input, and
\* nothing of what it held before.
C7_Outputs ==
    \A r \in Runs : Success \in out[r] =>
        /\ HoldsClass(independent_file, original_packages_raw[r],
                      depended_upon_set[r], FALSE)
        /\ HoldsClass(dependent_file, original_packages_raw[r],
                      depended_upon_set[r], TRUE)

\* C7 witness: a successful run has written a versioned specifier to each file
C7_Witness ==
    /\ Success \in out[1]
    /\ TextLines(independent_file.content) = <<L_a>>
    /\ TextLines(dependent_file.content) = <<Strip(L_B)>>

\* C8: a failing `pip install -r` prints the warning and the run goes on to the
\* queries; when the later steps succeed both output files are written.
C8_InstallNonFatal ==
    [][\A r \in Runs :
          /\ (pc[r] = "install_requirements" /\ InstallWarning \in out'[r]) =>
                pc'[r] = "list"
          /\ (InstallWarning \in out[r] /\ Success \notin out[r] /\ Success \in out'[r]) =>
                /\ independent_file' = File(Written(independent_packages[r]))
                /\ dependent_file' = File(Written(dependent_packages[r]))
      ]_vars

\* C8 witness: a run that printed the warning has split the file
C8_Witness ==
    /\ pc[1] = "done"
    /\ InstallWarning \in out[1]
    /\ Success \in out[1]
    /\ independent_file.exists /\ independent_file # OldFile
    /\ dependent_file.exists /\ dependent_file # OldFile

\* C9: a setup step that fails (a subprocess exiting non-zero, or output that is not
\* JSON) prints its message and leads straight to the cleanup, which leads to the
\* return; no step before the classification, and no cleanup, touches an output file.
C9_SetupFailure ==
    [][\A r \in Runs :
          /\ (/\ pc[r] \in {"provision", "install_tool", "list", "deptree"}
              /\ (out'[r] \ out[r]) \cap {SubprocessError, JsonError} # {}) =>
                pc'[r] = "teardown"
          /\ (pc[r] \in BeforeClassify \cup {"teardown"} /\ pc'[r] # pc[r]) =>
                UNCHANGED <<independent_file, dependent_file>>
          /\ (pc[r] = "teardown" /\ pc'[r] # "teardown") =>
                /\ pc'[r] = "done"
                /\ venv_exists => "Cleaning up" \in out'[r]
          /\ (pc[r] \in {"provision", "install_tool", "list", "deptree"}
              /\ pc'[r] = "teardown") => out'[r] \cap ErrorMessages # {}
      ]_vars

\* C9 witness: the dependency query returned no JSON; the run has returned with the
\* message printed, the sandbox removed and the old output files untouched
C9_Witness ==
    /\ pc[1] = "done"
    /\ JsonError \in out[1]
    /\ Success \notin out[1]
    /\ Removed \in out[1]
    /\ independent_file = OldFile
    /\ dependent_file = OldFile

\* C10: nothing makes a run's cleanup wait for another run: whenever a run stands at
\* the cleanup and the directory exists, the removal can be taken at once, whatever
\* the other run is doing.
C10_NoLock ==
    \A r \in Runs : (pc[r] = "teardown" /\ venv_exists) => ENABLED TeardownRemove(r)

\* C10 witness: run 2 has removed the directory while run 1, which provisioned it,
\* stands between provisioning and the dependency query
C10_Witness ==
    /\ pc[1] \in BetweenProvisionAndQuery
    /\ ~venv_exists
    /\ Removed \in out[2]
    /\ pc[2] = "done"

====
